---- MODULE Spec2Model ----
(***************************************************************************)
(* RCNNProposal (luminoth/models/fasterrcnn/rcnn_proposal.py).             *)
(*                                                                         *)
(* The module is constructed from (num_classes, config) and then called    *)
(* once with (proposals, bbox_pred, cls_prob, im_shape).  Every tensor op  *)
(* of _build is one step of the state machine, in program order.           *)
(*                                                                         *)
(* Numbers.  Probabilities and the IoU threshold are held in hundredths    *)
(* (80 stands for 0.80).  Box coordinates are whole pixels.  The size      *)
(* deltas dw, dh are held in units of ln 3, so exp(dw) = 3^dw is exact     *)
(* and the decoded coordinates stay whole.                                 *)
(* A 2-D tensor is a sequence of rows, a 1-D tensor a sequence of numbers. *)
(* Python's None is the empty tuple <<>>, a set value v is <<v>>.          *)
(***************************************************************************)
EXTENDS Integers, Sequences, FiniteSets, TLC

VARIABLES
    pc,                 \* position in __init__ / _build
    err,                \* the error raised, "" when none
    args,               \* the arguments: num_classes, config, proposals, bbox_pred, cls_prob, im_shape
    self,               \* the fields __init__ sets
    proposals, bbox_pred,
    proposal_label, proposal_label_prob, proposal_filter,
    raw_objects, clipped_objects, objects, objects_tf,
    class_id, selected_boxes, selected_probs, selected_labels,
    top_k, result

vars == <<pc, err, args, self, proposals, bbox_pred, proposal_label,
          proposal_label_prob, proposal_filter, raw_objects, clipped_objects,
          objects, objects_tf, class_id, selected_boxes, selected_probs,
          selected_labels, top_k, result>>

\* ---------------------------------------------------------------- bounds

MaxProposals == 3

MaxClasses == 2

\* ------------------------------------------------------- tensor operators

Min2(a, b) == IF a <= b THEN a ELSE b

Max2(a, b) == IF a >= b THEN a ELSE b

\* tf.reduce_max over one row
ReduceMax(row) ==
    CHOOSE m \in {row[j] : j \in DOMAIN row} : \A j \in DOMAIN row : row[j] <= m

\* tf.argmax over one row: the 0-based index of the first largest entry
Argmax(row) ==
    (CHOOSE j \in DOMAIN row :
        /\ row[j] = ReduceMax(row)
        /\ \A i \in DOMAIN row : i < j => row[i] < row[j]) - 1

\* tf.where on a 1-D boolean tensor: the positions holding TRUE, ascending
Where(mask) ==
    LET F[i \in 0..Len(mask)] ==
            IF i = 0 THEN <<>>
            ELSE IF mask[i] THEN Append(F[i - 1], i) ELSE F[i - 1]
    IN  F[Len(mask)]

\* tf.gather along axis 0; an index past the end reads `zero` (the GPU
\* kernel's documented behaviour; the CPU kernel raises, see OutOfRange)
Gather(params, indices, zero) ==
    [j \in 1..Len(indices) |->
        IF indices[j] \in DOMAIN params THEN params[indices[j]] ELSE zero]

\* whether tf.gather would read past the end of params
OutOfRange(params, indices) ==
    \E j \in DOMAIN indices : indices[j] \notin DOMAIN params

\* tf.boolean_mask(tensor, mask) = gather(tensor, squeeze(where(mask)))
BooleanMask(tensor, mask, zero) == Gather(tensor, Where(mask), zero)

\* a row of n zeros
Zeros(n) == [j \in 1..n |-> 0]

\* tf.reshape(t, [-1]) of a 2-D tensor: its rows laid end to end
Flatten(t) ==
    LET F[i \in 0..Len(t)] == IF i = 0 THEN <<>> ELSE F[i - 1] \o t[i]
    IN  F[Len(t)]

\* tf.reshape(flat, [-1, 4])
ReshapeRowsOf4(flat) ==
    [i \in 1..(Len(flat) \div 4) |-> SubSeq(flat, 4 * (i - 1) + 1, 4 * i)]

\* tf.one_hot(labels, depth): row i has a 1 at 0-based column labels[i]
OneHot(labels, depth) ==
    [i \in 1..Len(labels) |-> [j \in 1..depth |-> IF j - 1 = labels[i] THEN 1 ELSE 0]]

\* tf.cast(x, tf.bool) on a 1-D tensor
CastBool(flat) == [j \in 1..Len(flat) |-> flat[j] # 0]

\* tf.tile([v], [n])
Tile(v, n) == [j \in 1..n |-> v]

\* tf.concat(list, axis=0)
Concat(list) == Flatten(list)

\* ------------------------------------------- luminoth.utils.bbox_transform_tf

\* exp(d) for a size delta d held in units of ln 3
Exp(d) == 3 ^ d

\* decode of one (x_min, y_min, x_max, y_max) proposal by one (dx, dy, dw, dh)
DecodeRow(roi, d) ==
    LET w  == roi[3] - roi[1] + 1
        h  == roi[4] - roi[2] + 1
        pw == Exp(d[3]) * w
        ph == Exp(d[4]) * h
        \* centre = min + w/2, moved by dx*w; the new box spans pw around it
    IN  << roi[1] + d[1] * w - ((pw - w) \div 2),
           roi[2] + d[2] * h - ((ph - h) \div 2),
           roi[1] + d[1] * w + ((pw + w) \div 2) - 1,
           roi[2] + d[2] * h + ((ph + h) \div 2) - 1 >>

decode(roi, deltas) == [i \in 1..Len(roi) |-> DecodeRow(roi[i], deltas[i])]

Clamp(v, lo, hi) == Max2(Min2(v, hi), lo)

\* clip_boxes: x into [0, width - 1], y into [0, height - 1]; im_shape = (height, width)
clip_boxes(bboxes, im_shape) ==
    [i \in 1..Len(bboxes) |->
        << Clamp(bboxes[i][1], 0, im_shape[2] - 1),
           Clamp(bboxes[i][2], 0, im_shape[1] - 1),
           Clamp(bboxes[i][3], 0, im_shape[2] - 1),
           Clamp(bboxes[i][4], 0, im_shape[1] - 1) >>]

\* change_order: (x_min, y_min, x_max, y_max) <-> (y_min, x_min, y_max, x_max)
change_order(bboxes) ==
    [i \in 1..Len(bboxes) |-> << bboxes[i][2], bboxes[i][1], bboxes[i][4], bboxes[i][3] >>]

\* ------------------------------------------------ tf.image.non_max_suppression

\* area of a box given as (y1, x1, y2, x2), corners in either order
BoxArea(b) ==
    (Max2(b[1], b[3]) - Min2(b[1], b[3])) * (Max2(b[2], b[4]) - Min2(b[2], b[4]))

BoxIntersection(a, b) ==
    LET ymin == Max2(Min2(a[1], a[3]), Min2(b[1], b[3]))
        xmin == Max2(Min2(a[2], a[4]), Min2(b[2], b[4]))
        ymax == Min2(Max2(a[1], a[3]), Max2(b[1], b[3]))
        xmax == Min2(Max2(a[2], a[4]), Max2(b[2], b[4]))
    IN  Max2(ymax - ymin, 0) * Max2(xmax - xmin, 0)

\* a faulty variant of IOUGreaterThanThreshold: suppression at IoU >= threshold
IOUAtLeastThreshold(a, b, iou_threshold) ==
    /\ BoxArea(a) > 0
    /\ BoxArea(b) > 0
    /\ BoxIntersection(a, b) * 100
          >= iou_threshold * (BoxArea(a) + BoxArea(b) - BoxIntersection(a, b))

\* the kernel's overlap test: IoU > iou_threshold (hundredths); a box of
\* no area overlaps nothing
IOUGreaterThanThreshold(a, b, iou_threshold) ==
    /\ BoxArea(a) > 0
    /\ BoxArea(b) > 0
    /\ BoxIntersection(a, b) * 100
          > iou_threshold * (BoxArea(a) + BoxArea(b) - BoxIntersection(a, b))

\* the orders in which the kernel may visit the candidates: by score,
\* highest first, candidates of equal score in any order
ScoreOrders(scores) ==
    {p \in [1..Len(scores) -> 1..Len(scores)] :
        /\ \A i, j \in 1..Len(scores) : i # j => p[i] # p[j]
        /\ \A i, j \in 1..Len(scores) : i < j => scores[p[i]] >= scores[p[j]]}

\* a faulty variant of OutputSize: max_output_size is ignored
OutputSizeUncapped(max_output_size, num_boxes) == num_boxes

\* the number of boxes the kernel stops at
OutputSize(max_output_size, num_boxes) == Min2(max_output_size, num_boxes)

\* the indices (1-based) the greedy pass selects, in selection order
NonMaxSuppression(boxes, scores, max_output_size, iou_threshold, order) ==
    LET n == Len(boxes)
        Sel[i \in 0..n] ==
            IF i = 0 THEN <<>>
            ELSE LET prev == Sel[i - 1]
                     cand == order[i]
                 IN  IF Len(prev) >= OutputSize(max_output_size, n) THEN prev
                     ELSE IF \E j \in 1..Len(prev) :
                                 IOUGreaterThanThreshold(boxes[cand], boxes[prev[j]],
                                                         iou_threshold)
                          THEN prev
                          ELSE Append(prev, cand)
    IN  Sel[n]

\* ----------------------------------------------------------- tf.nn.top_k

\* a faulty variant of RanksBefore: ascending instead of descending
RanksBeforeAscending(values, i, j) ==
    values[i] < values[j] \/ (values[i] = values[j] /\ i <= j)

\* entry i comes before entry j: larger first, equal values by lower index
RanksBefore(values, i, j) ==
    values[i] > values[j] \/ (values[i] = values[j] /\ i <= j)

\* the indices (1-based) of the k largest entries, sorted
TopKIndices(values, k) ==
    LET Taken(s) == {s[j] : j \in DOMAIN s}
        F[m \in 0..k] ==
            IF m = 0 THEN <<>>
            ELSE Append(F[m - 1],
                        CHOOSE i \in DOMAIN values \ Taken(F[m - 1]) :
                            \A j \in DOMAIN values \ Taken(F[m - 1]) :
                                RanksBefore(values, i, j))
    IN  F[k]

\* a faulty variant of TopKCount: k is not capped by the number of entries
TopKCountUncapped(total_max_detections, n) == total_max_detections

\* k = tf.minimum(total_max_detections, tf.shape(proposal_label_prob)[0])
TopKCount(total_max_detections, n) == Min2(total_max_detections, n)


\* ------------------------------------------------------------- arguments

\* one proposal as the network hands it over: its box, the column of
\* cls_prob holding the largest score `hi` (the others hold `lo`), and the
\* pattern its delta block follows
InputRow(box, a, hi, lo, pat) == [box |-> box, a |-> a, hi |-> hi, lo |-> lo, pat |-> pat]

\* a row of proposals, Shape (num_proposals, cols): the batch id, then the box
ProposalRow(cols, box) ==
    [k \in 1..cols |-> IF k = 1 THEN 0 ELSE IF k - 1 <= 4 THEN box[k - 1] ELSE 0]

\* a row of cls_prob, Shape (num_proposals, num_classes + 1)
ProbRow(nc, r) == [j \in 1..(nc + 1) |-> IF j - 1 = r.a THEN r.hi ELSE r.lo]

\* entry k (0-based) of a delta block: pattern 0 is all zero; the other
\* patterns give every class its own (dx, dy, dw, dh), dx, dy in -1..1
\* and dw, dh in 0..1
DeltaVal(pat, k) ==
    IF pat = 0 THEN 0
    ELSE IF k % 4 < 2 THEN ((pat + (k \div 4) + (k % 4)) % 3) - 1
    ELSE (pat + (k \div 4) + (k % 4)) % 2

\* a row of bbox_pred, Shape (num_proposals, 4 * num_classes)
DeltaRow(cols, pat) == [k \in 1..cols |-> DeltaVal(pat, k - 1)]

\* the shapes of the three tensors: columns of proposals, columns of
\* bbox_pred beyond 4 * num_classes, and how many rows each tensor is short
Shape(pcols, dextra, cutP, cutD, cutC) ==
    [pcols |-> pcols, dextra |-> dextra, cutP |-> cutP, cutD |-> cutD, cutC |-> cutC]

WellShaped == Shape(5, 0, 0, 0, 0)

Config(cmd, thr, tmd, mpt) ==
    [class_max_detections |-> cmd, class_nms_threshold |-> thr,
     total_max_detections |-> tmd, min_prob_threshold |-> mpt]

\* the arguments of RCNNProposal(num_classes, config)(proposals, bbox_pred, cls_prob, im_shape)
Call(nc, cfg, rows, sh, im) ==
    [num_classes    |-> nc,
     config         |-> cfg,
     proposals      |-> [i \in 1..Max2(Len(rows) - sh.cutP, 0) |-> ProposalRow(sh.pcols, rows[i].box)],
     proposals_cols |-> sh.pcols,
     bbox_pred      |-> [i \in 1..Max2(Len(rows) - sh.cutD, 0) |-> DeltaRow(4 * nc + sh.dextra, rows[i].pat)],
     bbox_pred_cols |-> 4 * nc + sh.dextra,
     cls_prob       |-> [i \in 1..Max2(Len(rows) - sh.cutC, 0) |-> ProbRow(nc, rows[i])],
     im_shape       |-> im]

\* the state before __init__ runs, for the given arguments
Start(a) ==
    /\ args = a
    /\ pc = "init"
    /\ err = ""
    /\ self = [num_classes |-> 0, class_max_detections |-> 0, class_nms_threshold |-> 0,
               total_max_detections |-> 0, min_prob_threshold |-> 0]
    /\ proposals = a.proposals
    /\ bbox_pred = a.bbox_pred
    /\ proposal_label = <<>>
    /\ proposal_label_prob = <<>>
    /\ proposal_filter = <<>>
    /\ raw_objects = <<>>
    /\ clipped_objects = <<>>
    /\ objects = <<>>
    /\ objects_tf = <<>>
    /\ class_id = 0
    /\ selected_boxes = <<>>
    /\ selected_probs = <<>>
    /\ selected_labels = <<>>
    /\ top_k = [values |-> <<>>, indices |-> <<>>]
    /\ result = [raw_objects |-> <<>>, objects |-> <<>>, proposal_label |-> <<>>,
                 proposal_label_prob |-> <<>>, selected_boxes |-> <<>>,
                 selected_probs |-> <<>>, selected_labels |-> <<>>]

\* --------------------------------------------------------------- __init__

\* config.min_prob_threshold or 0.0
OrZero(v) == IF v = <<>> \/ v = <<0>> THEN 0 ELSE v[1]

Construct ==
    /\ pc = "init"
    /\ self' = [num_classes           |-> args.num_classes,
                class_max_detections  |-> args.config.class_max_detections,
                class_nms_threshold   |-> args.config.class_nms_threshold,
                total_max_detections  |-> args.config.total_max_detections,
                min_prob_threshold    |-> OrZero(args.config.min_prob_threshold)]
    /\ pc' = "strip"
    /\ UNCHANGED <<err, args, proposals, bbox_pred, proposal_label, proposal_label_prob,
                   proposal_filter, raw_objects, clipped_objects, objects, objects_tf,
                   class_id, selected_boxes, selected_probs, selected_labels, top_k, result>>

\* ----------------------------------------------------------------- _build

Raise(e) == pc' = "failed" /\ err' = e

Goto(l) == pc' = l /\ err' = err

\* columns of proposals once the batch id is removed
ProposalCols == args.proposals_cols - 1

\* proposals[:, 1:] under a control dependency on tf.equal(...), a boolean
\* tensor that is computed and dropped: nothing is asserted
StripBatch ==
    /\ pc = "strip"
    /\ proposals' = [i \in 1..Len(proposals) |-> Tail(proposals[i])]
    /\ Goto("label")
    /\ UNCHANGED <<args, self, bbox_pred, proposal_label, proposal_label_prob,
                   proposal_filter, raw_objects, clipped_objects, objects, objects_tf,
                   class_id, selected_boxes, selected_probs, selected_labels, top_k, result>>

\* tf.argmax(cls_prob, axis=1) - 1, for one row
LabelOf(row) == Argmax(row) - 1

\* a faulty variant of PassesMinProb: strictly above the threshold
PassesMinProbStrict(p, threshold) == p > threshold

\* tf.greater_equal(proposal_label_prob, self._min_prob_threshold), for one row
PassesMinProb(p, threshold) == p >= threshold

AssignLabels ==
    /\ pc = "label"
    /\ proposal_label' = [i \in 1..Len(args.cls_prob) |-> LabelOf(args.cls_prob[i])]
    /\ proposal_label_prob' = [i \in 1..Len(args.cls_prob) |-> ReduceMax(args.cls_prob[i])]
    /\ proposal_filter' =
          [i \in 1..Len(args.cls_prob) |->
              /\ LabelOf(args.cls_prob[i]) >= 0
              /\ PassesMinProb(ReduceMax(args.cls_prob[i]), self.min_prob_threshold)]
    /\ Goto("filter")
    /\ UNCHANGED <<args, self, proposals, bbox_pred, raw_objects, clipped_objects, objects,
                   objects_tf, class_id, selected_boxes, selected_probs, selected_labels,
                   top_k, result>>

\* tf.assert_equal on the rows of proposals and bbox_pred, then the four
\* boolean_mask calls.  The mask has one entry per row of cls_prob; where it
\* is longer than proposals a TRUE past the end makes gather raise on a CPU
\* and read zeros on a GPU.
FilterProposals ==
    /\ pc = "filter"
    /\ \E gpu \in BOOLEAN :
          LET idx  == Where(proposal_filter)
              past == OutOfRange(proposals, idx) \/ OutOfRange(bbox_pred, idx)
          IN  IF Len(proposals) # Len(bbox_pred)
              THEN /\ Raise("ShapeMismatch")
                   /\ UNCHANGED <<proposals, proposal_label, proposal_label_prob, bbox_pred>>
              ELSE IF past /\ ~gpu
              THEN /\ Raise("InvalidArgument")
                   /\ UNCHANGED <<proposals, proposal_label, proposal_label_prob, bbox_pred>>
              ELSE /\ proposals' = BooleanMask(proposals, proposal_filter, Zeros(ProposalCols))
                   /\ proposal_label' = BooleanMask(proposal_label, proposal_filter, 0)
                   /\ proposal_label_prob' = BooleanMask(proposal_label_prob, proposal_filter, 0)
                   /\ bbox_pred' = BooleanMask(bbox_pred, proposal_filter, Zeros(args.bbox_pred_cols))
                   /\ Goto("gather")
    /\ UNCHANGED <<args, self, proposal_filter, raw_objects, clipped_objects, objects,
                   objects_tf, class_id, selected_boxes, selected_probs, selected_labels,
                   top_k, result>>

\* a faulty variant of OneHotDepth: the background class is counted in
OneHotDepthWithBackground(num_classes) == num_classes + 1

\* depth=self._num_classes
OneHotDepth(num_classes) == num_classes

\* one_hot, the two reshapes, tf.assert_equal on their rows, boolean_mask
GatherDeltas ==
    /\ pc = "gather"
    /\ LET label_one_hot         == OneHot(proposal_label, OneHotDepth(self.num_classes))
           label_one_hot_flatten == CastBool(Flatten(label_one_hot))
           flat                  == Flatten(bbox_pred)
           bbox_pred_flatten     == ReshapeRowsOf4(flat)
       IN  IF Len(flat) % 4 # 0
           THEN Raise("InvalidArgument") /\ UNCHANGED bbox_pred
           ELSE IF Len(bbox_pred_flatten) # Len(label_one_hot_flatten)
           THEN Raise("ShapeMismatch") /\ UNCHANGED bbox_pred
           ELSE /\ bbox_pred' = BooleanMask(bbox_pred_flatten, label_one_hot_flatten, Zeros(4))
                /\ Goto("decode")
    /\ UNCHANGED <<args, self, proposals, proposal_label, proposal_label_prob,
                   proposal_filter, raw_objects, clipped_objects, objects, objects_tf,
                   class_id, selected_boxes, selected_probs, selected_labels, top_k, result>>

\* decode(proposals, bbox_pred): both are split into 4 columns and combined
\* row by row; a proposals tensor that is not 4 wide cannot be split into
\* its 4 coordinates, and tensors of different lengths cannot be combined
Decode ==
    /\ pc = "decode"
    /\ IF ProposalCols # 4 \/ Len(proposals) # Len(bbox_pred)
       THEN Raise("InvalidArgument") /\ UNCHANGED raw_objects
       ELSE raw_objects' = decode(proposals, bbox_pred) /\ Goto("clip")
    /\ UNCHANGED <<args, self, proposals, bbox_pred, proposal_label, proposal_label_prob,
                   proposal_filter, clipped_objects, objects, objects_tf, class_id,
                   selected_boxes, selected_probs, selected_labels, top_k, result>>

Clip ==
    /\ pc = "clip"
    /\ clipped_objects' = clip_boxes(raw_objects, args.im_shape)
    /\ Goto("valid")
    /\ UNCHANGED <<args, self, proposals, bbox_pred, proposal_label, proposal_label_prob,
                   proposal_filter, raw_objects, objects, objects_tf, class_id,
                   selected_boxes, selected_probs, selected_labels, top_k, result>>

\* max(x_max - x_min, 0) * max(y_max - y_min, 0) >= 0, for one clipped box
ObjectFilter(b) == Max2(b[3] - b[1], 0) * Max2(b[4] - b[2], 0) >= 0

\* the area filter, the three boolean_mask calls, change_order and the
\* three empty lists
FilterValid ==
    /\ pc = "valid"
    /\ LET object_filter == [i \in 1..Len(clipped_objects) |-> ObjectFilter(clipped_objects[i])]
       IN  /\ objects' = BooleanMask(clipped_objects, object_filter, Zeros(4))
           /\ proposal_label' = BooleanMask(proposal_label, object_filter, 0)
           /\ proposal_label_prob' = BooleanMask(proposal_label_prob, object_filter, 0)
           /\ objects_tf' = change_order(BooleanMask(clipped_objects, object_filter, Zeros(4)))
    /\ selected_boxes' = <<>>
    /\ selected_probs' = <<>>
    /\ selected_labels' = <<>>
    /\ class_id' = 0
    /\ Goto("nms")
    /\ UNCHANGED <<args, self, proposals, bbox_pred, proposal_filter, raw_objects,
                   clipped_objects, top_k, result>>

\* a faulty variant of ClassFilter: the class of the previous iteration
ClassFilterOffByOne(labels, c) == [i \in 1..Len(labels) |-> labels[i] = c - 1]

\* tf.equal(proposal_label, class_id)
ClassFilter(labels, c) == [i \in 1..Len(labels) |-> labels[i] = c]

\* one iteration of `for class_id in range(self._num_classes)`
ClassNMS ==
    /\ pc = "nms"
    /\ class_id < self.num_classes
    /\ LET class_filter     == ClassFilter(proposal_label, class_id)
           class_objects_tf == BooleanMask(objects_tf, class_filter, Zeros(4))
           class_prob       == BooleanMask(proposal_label_prob, class_filter, 0)
       IN  \E order \in ScoreOrders(class_prob) :
              LET class_selected_idx ==
                      NonMaxSuppression(class_objects_tf, class_prob,
                                        self.class_max_detections,
                                        self.class_nms_threshold, order)
              IN  /\ selected_boxes' =
                        Append(selected_boxes, Gather(class_objects_tf, class_selected_idx, Zeros(4)))
                  /\ selected_probs' =
                        Append(selected_probs, Gather(class_prob, class_selected_idx, 0))
                  /\ selected_labels' =
                        Append(selected_labels, Tile(class_id, Len(class_selected_idx)))
    /\ class_id' = class_id + 1
    /\ Goto(IF class_id + 1 = self.num_classes THEN "concat" ELSE "nms")
    /\ UNCHANGED <<args, self, proposals, bbox_pred, proposal_label, proposal_label_prob,
                   proposal_filter, raw_objects, clipped_objects, objects, objects_tf,
                   top_k, result>>

\* the three tf.concat calls and change_order back
ConcatSelected ==
    /\ pc = "concat"
    /\ objects_tf' = Concat(selected_boxes)
    /\ objects' = change_order(Concat(selected_boxes))
    /\ proposal_label' = Concat(selected_labels)
    /\ proposal_label_prob' = Concat(selected_probs)
    /\ Goto("topk")
    /\ UNCHANGED <<args, self, proposals, bbox_pred, proposal_filter, raw_objects,
                   clipped_objects, class_id, selected_boxes, selected_probs,
                   selected_labels, top_k, result>>

\* k, tf.nn.top_k (which raises when k exceeds the number of entries), the
\* two gathers and the returned dictionary
TopK ==
    /\ pc = "topk"
    /\ LET k == TopKCount(self.total_max_detections, Len(proposal_label_prob))
       IN  IF k > Len(proposal_label_prob)
           THEN Raise("InvalidArgument") /\ UNCHANGED <<top_k, result>>
           ELSE LET indices == TopKIndices(proposal_label_prob, k)
                IN  /\ top_k' = [values  |-> Gather(proposal_label_prob, indices, 0),
                                 indices |-> indices]
                    /\ result' =
                          [raw_objects         |-> raw_objects,
                           objects             |-> Gather(objects, indices, Zeros(4)),
                           proposal_label      |-> Gather(proposal_label, indices, 0),
                           proposal_label_prob |-> Gather(proposal_label_prob, indices, 0),
                           selected_boxes      |-> selected_boxes,
                           selected_probs      |-> selected_probs,
                           selected_labels     |-> selected_labels]
                    /\ Goto("done")
    /\ UNCHANGED <<args, self, proposals, bbox_pred, proposal_label, proposal_label_prob,
                   proposal_filter, raw_objects, clipped_objects, objects, objects_tf,
                   class_id, selected_boxes, selected_probs, selected_labels>>

Next ==
    \/ Construct
    \/ StripBatch
    \/ AssignLabels
    \/ FilterProposals
    \/ GatherDeltas
    \/ Decode
    \/ Clip
    \/ FilterValid
    \/ ClassNMS
    \/ ConcatSelected
    \/ TopK

\* ---------------------------------------------------------- specifications

\* Proposals that differ in label, score and delta block: a first class at
\* score 0.50, a confident last class, a background row, a row whose
\* scores all tie (argmax is the background column) and a weak last class
LabelRows(nc) ==
    { InputRow(<<1, 1, 2, 2>>, 1, 50, 10, 1),
      InputRow(<<0, 0, 3, 1>>, nc, 80, 20, 2),
      InputRow(<<1, 1, 2, 2>>, 0, 80, 10, 1),
      InputRow(<<2, 0, 3, 3>>, 1, 40, 40, 2),
      InputRow(<<0, 2, 1, 3>>, nc, 30, 20, 1) }

\* Well-shaped calls under three settings of min_prob_threshold, and calls
\* whose tensors disagree in rows or columns
LabelCases ==
    { [cfg |-> Config(2, 50, 2, <<>>),   sh |-> WellShaped],
      [cfg |-> Config(2, 50, 2, <<0>>),  sh |-> WellShaped],
      [cfg |-> Config(2, 50, 2, <<50>>), sh |-> WellShaped],
      [cfg |-> Config(2, 50, 2, <<50>>), sh |-> Shape(5, 0, 0, 0, 1)],
      [cfg |-> Config(2, 50, 2, <<50>>), sh |-> Shape(5, 0, 1, 1, 0)],
      [cfg |-> Config(2, 50, 2, <<50>>), sh |-> Shape(5, 0, 0, 1, 0)],
      [cfg |-> Config(2, 50, 2, <<50>>), sh |-> Shape(4, 0, 0, 0, 0)],
      [cfg |-> Config(2, 50, 2, <<50>>), sh |-> Shape(5, 4, 0, 0, 0)] }

Init ==
    \E nc \in 1..MaxClasses, n \in 0..MaxProposals, cs \in LabelCases :
        \E rows \in [1..n -> LabelRows(nc)] :
            Start(Call(nc, cs.cfg, rows, cs.sh, <<4, 4>>))

Spec == Init /\ [][Next]_vars

\* Proposals with zero deltas whose boxes overlap in known ratios:
\* IoU((0,0,2,1), (0,0,1,1)) = 1/2, IoU((0,0,2,2), (0,0,2,1)) = 1/2,
\* IoU((0,0,2,2), (0,0,1,1)) = 1/4, (2,2,3,3) meets none of them and
\* (3,3,3,3) has no area
NMSRows(nc) ==
    { InputRow(<<0, 0, 2, 1>>, 1, 80, 10, 0),
      InputRow(<<0, 0, 1, 1>>, 1, 50, 10, 0),
      InputRow(<<2, 2, 3, 3>>, 1, 50, 10, 0),
      InputRow(<<0, 0, 2, 2>>, nc, 60, 10, 0),
      InputRow(<<3, 3, 3, 3>>, nc, 80, 10, 0) }

\* Well-shaped calls under thresholds 0, 0.5 and 1 and caps from 0 to 3
NMSCases ==
    { [cfg |-> Config(2, 50, 3, <<>>),  sh |-> WellShaped],
      [cfg |-> Config(2, 0, 3, <<>>),   sh |-> WellShaped],
      [cfg |-> Config(2, 100, 3, <<>>), sh |-> WellShaped],
      [cfg |-> Config(1, 50, 3, <<>>),  sh |-> WellShaped],
      [cfg |-> Config(0, 50, 3, <<>>),  sh |-> WellShaped],
      [cfg |-> Config(3, 50, 2, <<>>),  sh |-> WellShaped],
      [cfg |-> Config(2, 50, 1, <<>>),  sh |-> WellShaped],
      [cfg |-> Config(2, 50, 0, <<>>),  sh |-> WellShaped] }

InitNMS ==
    \E nc \in 1..MaxClasses, n \in 0..MaxProposals, cs \in NMSCases :
        \E rows \in [1..n -> NMSRows(nc)] :
            Start(Call(nc, cs.cfg, rows, cs.sh, <<4, 4>>))

SpecNMS == InitNMS /\ [][Next]_vars

\* ------------------------------------------------- what the claims speak of

\* the three tensors have the same number of rows on entry
RowsAgree ==
    /\ Len(args.proposals) = Len(args.bbox_pred)
    /\ Len(args.proposals) = Len(args.cls_prob)

\* the call has the shapes the docstring gives
WellShapedCall ==
    /\ RowsAgree
    /\ args.proposals_cols = 5
    /\ args.bbox_pred_cols = 4 * args.num_classes

\* min_prob_threshold as configured, unset counting as 0
ConfiguredThreshold ==
    IF args.config.min_prob_threshold = <<>> THEN 0 ELSE args.config.min_prob_threshold[1]

\* the largest entry of a probability row
LargestOf(row) == CHOOSE m \in {row[j] : j \in DOMAIN row} : \A j \in DOMAIN row : m >= row[j]

\* the first column holding the largest entry, counted from the background
\* column as -1
FirstLargestColumn(row) ==
    CHOOSE l \in (0 - 1)..(Len(row) - 2) :
        /\ row[l + 2] = LargestOf(row)
        /\ \A j \in 1..(l + 1) : row[j] # LargestOf(row)

\* row i of cls_prob is neither background nor below the threshold
Survives(i) ==
    /\ FirstLargestColumn(args.cls_prob[i]) >= 0
    /\ LargestOf(args.cls_prob[i]) >= ConfiguredThreshold

Survivors == {i \in 1..Len(args.cls_prob) : Survives(i)}

\* the j-th survivor in input order
NthSurvivor(j) == CHOOSE i \in Survivors : Cardinality({m \in Survivors : m <= i}) = j

\* the delta of input row i read at offsets 4*label .. 4*label+3
IndexedDelta(i) ==
    SubSeq(args.bbox_pred[i], 4 * FirstLargestColumn(args.cls_prob[i]) + 1,
                              4 * FirstLargestColumn(args.cls_prob[i]) + 4)

\* the clipped decoded box of input row i
ClippedBoxOf(i) ==
    clip_boxes(<<DecodeRow(Tail(args.proposals[i]), IndexedDelta(i))>>, args.im_shape)[1]

\* IoU of two boxes as a fraction: overlap over union
Overlap(a, b) ==
    LET w == Min2(Max2(a[1], a[3]), Max2(b[1], b[3])) - Max2(Min2(a[1], a[3]), Min2(b[1], b[3]))
        h == Min2(Max2(a[2], a[4]), Max2(b[2], b[4])) - Max2(Min2(a[2], a[4]), Min2(b[2], b[4]))
    IN  IF w > 0 /\ h > 0 THEN w * h ELSE 0

Extent(a) == (Max2(a[1], a[3]) - Min2(a[1], a[3])) * (Max2(a[2], a[4]) - Min2(a[2], a[4]))

Union(a, b) == Extent(a) + Extent(b) - Overlap(a, b)

\* the per-class lists are filled
AfterSomeNMS == pc \in {"nms", "concat", "topk", "done"}

\* the candidates of class c (0-based) while the loop runs: their positions
\* in objects_tf
CandidatesOf(c) == {i \in 1..Len(proposal_label) : proposal_label[i] = c}

\* how many entries of the pair of lists (boxes, probs) equal (b, p)
CountIn(boxes, probs, b, p) ==
    Cardinality({i \in 1..Len(boxes) : boxes[i] = b /\ probs[i] = p})

\* ------------------------------------------------------------------ claims

\* C1 as stated: after PerClassNMS any two distinct boxes retained for one
\* class have an IoU strictly below class_nms_threshold.
C1_StrictlyBelow ==
    AfterSomeNMS =>
        \A c \in DOMAIN selected_boxes :
            \A i, j \in DOMAIN selected_boxes[c] :
                (i # j /\ Union(selected_boxes[c][i], selected_boxes[c][j]) > 0) =>
                    Overlap(selected_boxes[c][i], selected_boxes[c][j]) * 100
                      < self.class_nms_threshold * Union(selected_boxes[c][i], selected_boxes[c][j])

\* C1 amended: any two distinct boxes retained for one class have an IoU of
\* at most class_nms_threshold (an IoU with a box of no area counting as 0),
\* and suppression is strict: a candidate that was not retained has an IoU
\* strictly above the threshold with a retained box of its class, unless the
\* class already holds class_max_detections boxes; so a candidate whose IoU
\* with the selected boxes is exactly the threshold is retained.
C1_AtMostThreshold ==
    /\ AfterSomeNMS =>
          \A c \in DOMAIN selected_boxes :
              \A i, j \in DOMAIN selected_boxes[c] :
                  (i # j /\ Extent(selected_boxes[c][i]) > 0 /\ Extent(selected_boxes[c][j]) > 0) =>
                      Overlap(selected_boxes[c][i], selected_boxes[c][j]) * 100
                        <= self.class_nms_threshold * Union(selected_boxes[c][i], selected_boxes[c][j])
    /\ pc \in {"nms", "concat"} =>
          \A c \in DOMAIN selected_boxes :
              \A i \in CandidatesOf(c - 1) :
                  LET kept == CountIn(selected_boxes[c], selected_probs[c],
                                      objects_tf[i], proposal_label_prob[i])
                      all  == Cardinality({m \in CandidatesOf(c - 1) :
                                  /\ objects_tf[m] = objects_tf[i]
                                  /\ proposal_label_prob[m] = proposal_label_prob[i]})
                  IN  kept < all =>
                          \/ Len(selected_boxes[c]) = self.class_max_detections
                          \/ \E s \in DOMAIN selected_boxes[c] :
                                /\ Extent(objects_tf[i]) > 0
                                /\ Extent(selected_boxes[c][s]) > 0
                                /\ Overlap(objects_tf[i], selected_boxes[c][s]) * 100
                                     > self.class_nms_threshold
                                         * Union(objects_tf[i], selected_boxes[c][s])

\* C1 witness: two boxes of one class are both retained and their IoU is
\* exactly the threshold 0.5
C1_TieRetained ==
    /\ pc = "concat"
    /\ self.class_nms_threshold = 50
    /\ \E c \in DOMAIN selected_boxes :
          \E i, j \in DOMAIN selected_boxes[c] :
              /\ i # j
              /\ Overlap(selected_boxes[c][i], selected_boxes[c][j]) > 0
              /\ Overlap(selected_boxes[c][i], selected_boxes[c][j]) * 100
                   = 50 * Union(selected_boxes[c][i], selected_boxes[c][j])

\* C2: with positive caps, every class's entry of selected_boxes,
\* selected_probs and selected_labels has at most class_max_detections rows,
\* and the objects, proposal_label and proposal_label_prob returned have at
\* most total_max_detections rows.
C2_CountsWithinCaps ==
    (args.config.class_max_detections > 0 /\ args.config.total_max_detections > 0) =>
        /\ AfterSomeNMS =>
              \A c \in DOMAIN selected_boxes :
                  /\ Len(selected_boxes[c]) <= args.config.class_max_detections
                  /\ Len(selected_probs[c]) <= args.config.class_max_detections
                  /\ Len(selected_labels[c]) <= args.config.class_max_detections
        /\ pc = "done" =>
              /\ Len(result.objects) <= args.config.total_max_detections
              /\ Len(result.proposal_label) <= args.config.total_max_detections
              /\ Len(result.proposal_label_prob) <= args.config.total_max_detections
              /\ \A c \in DOMAIN result.selected_boxes :
                    Len(result.selected_boxes[c]) <= args.config.class_max_detections

\* C2 witness: both caps bind: a class holds exactly class_max_detections
\* boxes, and more entries were concatenated than total_max_detections
\* allows out
C2_BothCapsBind ==
    /\ pc = "done"
    /\ args.config.class_max_detections > 0
    /\ args.config.total_max_detections > 0
    /\ \E c \in DOMAIN selected_boxes : Len(selected_boxes[c]) = args.config.class_max_detections
    /\ Len(proposal_label_prob) > args.config.total_max_detections
    /\ Len(result.objects) = args.config.total_max_detections

\* C3: with n entries concatenated, TopKSelector returns exactly
\* k = min(total_max_detections, n) of them, no entry left out has a
\* probability strictly greater than one returned, and the returned
\* probabilities are in non-increasing order.
C3_TopKHighestSorted ==
    pc = "done" =>
        LET n   == Len(proposal_label_prob)
            k   == IF args.config.total_max_detections <= n
                   THEN args.config.total_max_detections ELSE n
            out == result.proposal_label_prob
        IN  /\ Len(out) = k
            /\ Len(result.objects) = k
            /\ Len(result.proposal_label) = k
            /\ \A j \in 1..(Len(out) - 1) : out[j] >= out[j + 1]
            /\ \E f \in [1..Len(out) -> 1..n] :
                  /\ \A i, j \in 1..Len(out) : i # j => f[i] # f[j]
                  /\ \A j \in 1..Len(out) : out[j] = proposal_label_prob[f[j]]
                  /\ \A i \in 1..n :
                        (\A j \in 1..Len(out) : f[j] # i) =>
                            \A j \in 1..Len(out) : proposal_label_prob[i] <= out[j]

\* C3 witness: three entries were concatenated out of probability order,
\* two of them are returned, the larger first
C3_TwoOfThree ==
    /\ pc = "done"
    /\ Len(proposal_label_prob) = 3
    /\ proposal_label_prob[1] < proposal_label_prob[3]
    /\ Len(result.proposal_label_prob) = 2
    /\ result.proposal_label_prob[1] > result.proposal_label_prob[2]

\* C4: every proposal gets label = argmax(probability row) - 1, which lies
\* in -1 .. num_classes-1, and probability = max(probability row); the
\* proposals that survive into decoding are exactly those with label >= 0
\* and probability >= min_prob_threshold (unset counting as 0), in input
\* order.
C4_LabelsAndSurvivors ==
    /\ pc = "filter" =>
          /\ Len(proposal_label) = Len(args.cls_prob)
          /\ Len(proposal_label_prob) = Len(args.cls_prob)
          /\ \A i \in 1..Len(args.cls_prob) :
                /\ proposal_label[i] = FirstLargestColumn(args.cls_prob[i])
                /\ proposal_label[i] \in (0 - 1)..(args.num_classes - 1)
                /\ proposal_label_prob[i] = LargestOf(args.cls_prob[i])
    /\ (pc = "gather" /\ RowsAgree) =>
          /\ Len(proposals) = Cardinality(Survivors)
          /\ Len(proposal_label) = Cardinality(Survivors)
          /\ Len(proposal_label_prob) = Cardinality(Survivors)
          /\ Len(bbox_pred) = Cardinality(Survivors)
          /\ \A j \in 1..Len(proposals) :
                /\ proposals[j] = Tail(args.proposals[NthSurvivor(j)])
                /\ bbox_pred[j] = args.bbox_pred[NthSurvivor(j)]
                /\ proposal_label[j] = FirstLargestColumn(args.cls_prob[NthSurvivor(j)])
                /\ proposal_label_prob[j] = LargestOf(args.cls_prob[NthSurvivor(j)])

\* C4 witness: of three proposals the filter dropped the first and kept two,
\* one of them at a probability exactly equal to min_prob_threshold = 0.5
C4_KeptAtThreshold ==
    /\ pc = "gather"
    /\ RowsAgree
    /\ args.config.min_prob_threshold = <<50>>
    /\ Len(args.proposals) = 3
    /\ ~Survives(1)
    /\ Len(proposals) = 2
    /\ \E j \in 1..2 : proposal_label_prob[j] = 50
    /\ proposal_label[1] # proposal_label[2]

\* C5 as stated: when the row counts of proposals, bbox_deltas and
\* class_probabilities are not all equal on entry, the call goes no further
\* than the filter and ends in ShapeMismatch; it returns nothing.
C5_MismatchAlwaysRaises ==
    ~RowsAgree =>
        /\ pc \in {"init", "strip", "label", "filter", "failed"}
        /\ pc = "failed" => err = "ShapeMismatch"

\* C6 as stated: when the inner dimension of proposals is not 5, the call
\* fails with ShapeMismatch with the batch tag still in place and no later
\* stage run.
C6_InnerDimensionChecked ==
    args.proposals_cols # 5 =>
        \/ pc \in {"init", "strip"}
        \/ pc = "failed" /\ err = "ShapeMismatch" /\ proposals = args.proposals

\* the configuration is one the interface allows
ValidConfiguration ==
    /\ args.config.class_nms_threshold >= 0
    /\ args.config.class_nms_threshold <= 100
    /\ args.config.class_max_detections > 0
    /\ args.config.total_max_detections > 0

\* C7 as stated: a configuration with class_nms_threshold outside [0,1] or a
\* cap that is not positive is rejected with InvalidConfiguration before
\* any stage runs.
C7_InvalidConfigurationRejected ==
    ~ValidConfiguration =>
        \/ pc = "init"
        \/ pc = "failed" /\ err = "InvalidConfiguration"

\* no proposal is both foreground and at or above the threshold (in
\* particular when there are no proposals at all)
NothingSurvives == WellShapedCall /\ Survivors = {}

\* C8: a well-shaped call with zero proposals, or whose proposals are all
\* background or below min_prob_threshold, raises nothing, runs to its
\* return, and returns empty objects, labels and probabilities.
C8_DegenerateInputsReturnEmpty ==
    NothingSurvives =>
        /\ pc # "failed"
        /\ pc # "done" => ENABLED Next
        /\ pc = "done" =>
              /\ result.objects = <<>>
              /\ result.proposal_label = <<>>
              /\ result.proposal_label_prob = <<>>
              /\ top_k.indices = <<>>

\* C8 witness: a call with a background proposal and a proposal below the
\* threshold, and no other kind, has returned
C8_AllFilteredReturned ==
    /\ pc = "done"
    /\ NothingSurvives
    /\ \E i \in 1..Len(args.cls_prob) : FirstLargestColumn(args.cls_prob[i]) < 0
    /\ \E i \in 1..Len(args.cls_prob) :
          /\ FirstLargestColumn(args.cls_prob[i]) >= 0
          /\ LargestOf(args.cls_prob[i]) < ConfiguredThreshold

\* C9: when the delta blocks are 4 * num_classes wide, DeltaGatherer raises
\* nothing and leaves, for every surviving row i in order, exactly the 4
\* values at offsets 4*label_i .. 4*label_i+3 of row i's block: one 4-tuple
\* per surviving row.
C9_GatherIsIndexedRead ==
    [][(pc = "gather" /\ args.bbox_pred_cols = 4 * args.num_classes) =>
          /\ pc' = "decode"
          /\ Len(bbox_pred') = Len(proposals)
          /\ \A i \in 1..Len(proposals) :
                bbox_pred'[i] = SubSeq(bbox_pred[i], 4 * proposal_label[i] + 1,
                                                     4 * proposal_label[i] + 4)]_vars

\* C9 witness: deltas were gathered for two rows of different labels, and
\* the two 4-tuples differ
C9_TwoLabelsGathered ==
    /\ pc = "decode"
    /\ args.bbox_pred_cols = 4 * args.num_classes
    /\ \E i, j \in 1..Len(bbox_pred) :
          /\ proposal_label[i] = 0
          /\ proposal_label[j] = 1
          /\ bbox_pred[i] # bbox_pred[j]
          /\ bbox_pred[i] # Zeros(4)

\* C10: for a well-shaped call, objects, proposal_label and
\* proposal_label_prob have equal length, and the output rows can be matched
\* one to one with distinct surviving input proposals: objects[j] is the
\* proposal's clipped decoded box, proposal_label[j] its label (argmax - 1)
\* and proposal_label_prob[j] its largest probability.
C10_OutputsCoIndexed ==
    (pc = "done" /\ WellShapedCall) =>
        /\ Len(result.objects) = Len(result.proposal_label)
        /\ Len(result.objects) = Len(result.proposal_label_prob)
        /\ \E f \in [1..Len(result.objects) -> 1..Len(args.proposals)] :
              /\ \A i, j \in 1..Len(result.objects) : i # j => f[i] # f[j]
              /\ \A j \in 1..Len(result.objects) :
                    /\ Survives(f[j])
                    /\ result.objects[j] = ClippedBoxOf(f[j])
                    /\ result.proposal_label[j] = FirstLargestColumn(args.cls_prob[f[j]])
                    /\ result.proposal_label_prob[j] = LargestOf(args.cls_prob[f[j]])

\* C10 witness: a well-shaped call returned two objects of different labels
\* and different boxes, in an order other than the input order
C10_TwoClassesReturned ==
    /\ pc = "done"
    /\ WellShapedCall
    /\ Len(result.objects) = 2
    /\ result.proposal_label[1] # result.proposal_label[2]
    /\ result.objects[1] # result.objects[2]
    /\ result.proposal_label_prob[1] > result.proposal_label_prob[2]
    /\ result.proposal_label[1] > result.proposal_label[2]

====
